---- MODULE Spec2Model ----
(***************************************************************************)
(* Econostream scraper: pagination crawler, crawl orchestrator, transport  *)
(* retry policy, URL normalizer and article parser                         *)
(* (src/econostream_requests.py, src/main.py).                             *)
(*                                                                         *)
(* Four specifications share the module:                                   *)
(*   Spec / FairSpec  one call of extract_all_news_links, scrape_full,     *)
(*                    fetch_article or the /scrape_full endpoint against   *)
(*                    a fixed news section (site);                         *)
(*   SpecTransport    one session.get through the mounted Retry policy,    *)
(*                    request by request;                                  *)
(*   SpecUrl          _abs_and_encode applied once and then again;         *)
(*   SpecParse        the paragraph / text / word_count part of            *)
(*                    parse_article_html.                                  *)
(***************************************************************************)
EXTENDS Integers, Sequences, FiniteSets, TLC

VARIABLES
    \* ---- crawl (Spec, FairSpec)
    site,        \* the news section: index page -> [links, next]
    pc,          \* "idle" | "extract" | "articles" | "done"
    call,        \* entry point of the call in progress
    max_pages,   \* Nothing or Some(integer)
    limit,       \* Nothing or Some(integer)
    offset,      \* the endpoint's offset
    current,     \* extract_all_news_links: current
    page_count,  \* extract_all_news_links: page_count
    collected,   \* extract_all_news_links: collected
    seen,        \* extract_all_news_links: seen
    urls,        \* scrape_full: urls (after the limit slice)
    results,     \* scrape_full: results
    sessions,    \* every requests.Session made so far: [by, open]
    used,        \* which session carried which kind of request
    failed,      \* some fetch of the call ended without a 2xx response
    outcome,     \* "none" | "ok" | "error"
    returned,    \* Some(value the call returned), Nothing if it raised
    \* ---- transport (SpecTransport)
    tpc,         \* "idle" | "sending" | "done"
    retries,     \* Retry.total still left
    log,         \* the responses received so far, one per request sent
    tresult,     \* "none" | "text" | "HTTPError" | "RetryError" | "ConnectionError"
    \* ---- URL normalizer (SpecUrl)
    upc,         \* "input" | "once" | "twice"
    href,        \* the link as found in the markup
    url1,        \* _abs_and_encode(href)
    url2,        \* _abs_and_encode(url1)
    \* ---- article parser (SpecParse)
    ppc,         \* "input" | "parsed"
    doc,         \* what the selectors match in the fetched markup
    article      \* the parsed record

crawlVars == <<site, pc, call, max_pages, limit, offset, current, page_count,
               collected, seen, urls, results, sessions, used, failed,
               outcome, returned>>
transportVars == <<tpc, retries, log, tresult>>
urlVars == <<upc, href, url1, url2>>
parseVars == <<ppc, doc, article>>
vars == <<crawlVars, transportVars, urlVars, parseVars>>
notCrawlVars == <<transportVars, urlVars, parseVars>>
notTransportVars == <<crawlVars, urlVars, parseVars>>
notUrlVars == <<crawlVars, transportVars, parseVars>>
notParseVars == <<crawlVars, transportVars, urlVars>>

None == "None"
\* An Optional[...] value: Nothing is Python's None, Some(x) a present x
Nothing == <<>>
Some(x) == <<x>>

Min(a, b) == IF a <= b THEN a ELSE b
Max(a, b) == IF a >= b THEN a ELSE b

(***************************************************************************)
(* Bounds of the model.                                                    *)
(***************************************************************************)
NumPages == 2       \* index pages of the news section
MaxCap == 2         \* largest integer page cap tried
MaxLimit == 1       \* largest article limit tried
MaxTail == 2        \* characters after the leading "/" of a link
MaxParaLen == 4     \* characters of one extracted paragraph

(***************************************************************************)
(* Transport Client: the Retry policy _make_session mounts, and            *)
(* _fetch_html.  A response is what one request sent on the wire comes     *)
(* back with: an HTTP status (with or without a Retry-After header) or a   *)
(* connection-level error.                                                 *)
(***************************************************************************)
RetryTotal == 3
status_forcelist == {429, 500, 502, 503, 504}
allowed_methods == {"GET", "HEAD"}
respect_retry_after_header == TRUE
\* urllib3's Retry.RETRY_AFTER_STATUS_CODES, consulted because line 73 asks
\* the policy to respect Retry-After
RETRY_AFTER_STATUS_CODES == {413, 429, 503}

R(s) == [kind |-> "response", status |-> s, retry_after |-> FALSE]
RA(s) == [kind |-> "response", status |-> s, retry_after |-> TRUE]
ConnErr == [kind |-> "error", status |-> 0, retry_after |-> FALSE]

Statuses == {200, 404, 413, 429, 500, 502, 503, 504}
Responses == {R(s) : s \in Statuses} \cup {RA(s) : s \in Statuses} \cup {ConnErr}

\* Retry.is_retry(method, status_code, has_retry_after)
is_retry(method, resp, total) ==
    /\ method \in allowed_methods
    /\ \/ resp.status \in status_forcelist
       \/ /\ total # 0
          /\ respect_retry_after_header
          /\ resp.retry_after
          /\ resp.status \in RETRY_AFTER_STATUS_CODES

\* Retry.is_exhausted() after Retry.increment() took one off total
is_exhausted_off_by_one(total) == total <= 0
is_exhausted(total) == total < 0

\* What the adapter does with one response while `total` retries are left:
\* send the request again, hand the response to the caller, or raise.
AfterResponse(method, resp, total) ==
    IF resp.kind = "error"
    THEN IF is_exhausted(total - 1)
         THEN [do |-> "raise", total |-> total - 1, exc |-> "ConnectionError"]
         ELSE [do |-> "resend", total |-> total - 1, exc |-> None]
    ELSE IF is_retry(method, resp, total)
    THEN IF is_exhausted(total - 1)
         THEN [do |-> "raise", total |-> total - 1, exc |-> "RetryError"]
         ELSE [do |-> "resend", total |-> total - 1, exc |-> None]
    ELSE [do |-> "return", total |-> total, exc |-> None]

\* Response.raise_for_status()
raise_for_status(resp) == resp.status >= 400 /\ resp.status < 600

\* session.get(url): the server answers the i-th request with script[i]
\* (and keeps giving its last answer once the script is used up).
RECURSIVE Urlopen(_, _, _)
Urlopen(script, i, total) ==
    LET resp == script[Min(i, Len(script))]
        d == AfterResponse("GET", resp, total)
    IN  IF d.do = "resend" THEN Urlopen(script, i + 1, d.total)
        ELSE [raised |-> d.do = "raise", exc |-> d.exc, resp |-> resp, sent |-> i]

SessionGet(script) == Urlopen(script, 1, RetryTotal)

\* _fetch_html without r.raise_for_status()
fetch_html_unchecked(script) ==
    IF SessionGet(script).raised THEN "error" ELSE "ok"

\* _fetch_html: "ok" when r.text is returned, "error" when it raises
fetch_html(script) ==
    LET r == SessionGet(script)
    IN  IF r.raised THEN "error"
        ELSE IF raise_for_status(r.resp) THEN "error"
        ELSE "ok"

\* Whether the server really served the document (final response 200)
Served(script) ==
    LET r == SessionGet(script) IN ~r.raised /\ r.resp.status = 200

\* What the server may do with one fetch of the crawl
FetchScripts == {<<R(200)>>, <<R(404)>>, <<R(503), R(200)>>,
                 <<R(500), R(500), R(500), R(500)>>, <<ConnErr, R(200)>>}

(***************************************************************************)
(* The news section the crawl runs against.  A link is the normalized URL  *)
(* of one anchor: its directory, file name and suffix decide whether it    *)
(* has the article shape.                                                  *)
(***************************************************************************)
U(dir, name, ext) == [dir |-> dir, name |-> name, ext |-> ext]
EmptyHref == U("", "", "")      \* <a href="">: _abs_and_encode gives None
LinkA == U("news", "a", "html")
LinkB == U("news", "b", "html")
LinkC == U("news", "c", "html")
LinkX == U("about", "x", "html")  \* not under /news/
LinkY == U("news", "y", "pdf")    \* not ending in .html

Pages == 1..NumPages
NoNext == 0
START_URL == 1

\* The anchors one index page may carry, in markup order
PageLinkChoices ==
    { <<>>,
      <<LinkB, LinkX, LinkA, LinkB>>,
      <<LinkY, LinkC, LinkA>>,
      <<EmptyHref, LinkB>> }

Sites == [Pages -> [links : PageLinkChoices, next : Pages \cup {NoNext}]]

\* _parse_article_links_from_html(html): (article_urls, next_url)
parse_article_links_from_html(page) ==
    [article_urls |-> SelectSeq(page.links, LAMBDA h : h # EmptyHref),
     next_url |-> page.next]

\* line 133: url.startswith(BASE_URL + "/news/") and url.endswith(".html")
HasArticleShape(url) == url.dir = "news" /\ url.ext = "html"

\* lines 132-135 without the "url not in seen" test
RECURSIVE collect_no_dedup(_, _)
collect_no_dedup(links, acc) ==
    IF links = <<>> THEN acc
    ELSE collect_no_dedup(Tail(links),
            IF HasArticleShape(Head(links)) THEN Append(acc, Head(links)) ELSE acc)

\* lines 132-135: the for loop over one page's links; seen is always the set
\* of the elements of collected, so one accumulator stands for both
RECURSIVE collect(_, _)
collect(links, acc) ==
    IF links = <<>> THEN acc
    ELSE LET url == Head(links)
             isSeen == \E i \in 1..Len(acc) : acc[i] = url
         IN  collect(Tail(links),
                     IF HasArticleShape(url) /\ ~isSeen THEN Append(acc, url) ELSE acc)

\* line 137 with > for >=
cap_reached_late(mp, count) == mp # Nothing /\ count > mp[1]

\* line 137: max_pages is not None and page_count >= max_pages
cap_reached(mp, count) == mp # Nothing /\ count >= mp[1]

\* page_count += 1.  Python's integer is unbounded; with an integer cap the
\* counter never passes Max(cap, 1), and without a cap it is never read, so
\* it is kept exact up to MaxCount and held there.
MaxCount == Max(MaxCap, NumPages) + 1
Bump(n) == IF n < MaxCount THEN n + 1 ELSE n

\* line 339: urls[:max(0, int(limit))]
slice_limit(list, lim) ==
    IF lim = Nothing THEN list ELSE SubSeq(list, 1, Min(Len(list), Max(0, lim[1])))

\* parse_article_html(html, u): the record always carries url = u
ArticleOf(u) == [url |-> u]

\* _make_session(): a new open session, owned by whoever made it
make_session(by) == Append(sessions, [by |-> by, open |-> TRUE])
\* session.close()
close(ss, id) == [ss EXCEPT ![id].open = FALSE]

\* max_pages: None or any integer (the endpoints only pass None or k >= 1)
CapChoices == {Nothing} \cup {Some(k) : k \in (-1)..MaxCap}
EndpointCapChoices == {mp \in CapChoices : mp = Nothing \/ mp[1] >= 1}
LimitChoices == {Nothing} \cup {Some(k) : k \in 0..MaxLimit}

(***************************************************************************)
(* Crawl: one call of an entry point.                                      *)
(***************************************************************************)
CrawlInit ==
    /\ site \in Sites
    /\ pc = "idle"
    /\ call = "none"
    /\ max_pages = Nothing
    /\ limit = Nothing
    /\ offset = 0
    /\ current = START_URL
    /\ page_count = 0
    /\ collected = <<>>
    /\ seen = {}
    /\ urls = <<>>
    /\ results = <<>>
    /\ sessions = <<>>
    /\ used = {}
    /\ failed = FALSE
    /\ outcome = "none"
    /\ returned = Nothing

\* extract_all_news_links(max_pages=mp): lines 120-125
CallLinks(mp) ==
    /\ pc = "idle"
    /\ call' = "links"
    /\ max_pages' = mp
    /\ sessions' = make_session("call")
    /\ collected' = <<>>
    /\ seen' = {}
    /\ current' = START_URL
    /\ page_count' = 0
    /\ pc' = "extract"
    /\ UNCHANGED <<site, limit, offset, urls, results, used, failed, outcome, returned>>
    /\ UNCHANGED notCrawlVars

\* scrape_full(max_pages=mp, limit=lim): line 335, then line 337 enters
\* extract_all_news_links, which makes a session of its own (line 120)
CallFull(mp, lim) ==
    /\ pc = "idle"
    /\ call' = "full"
    /\ max_pages' = mp
    /\ limit' = lim
    /\ sessions' = Append(make_session("call"), [by |-> "call", open |-> TRUE])
    /\ collected' = <<>>
    /\ seen' = {}
    /\ current' = START_URL
    /\ page_count' = 0
    /\ pc' = "extract"
    /\ UNCHANGED <<site, offset, urls, results, used, failed, outcome, returned>>
    /\ UNCHANGED notCrawlVars

\* The session extract_all_news_links made, and the one scrape_full made
ExtractSession == IF call = "full" THEN 2 ELSE 1
FullSession == 1

\* An exception leaves the call.  extract_all_news_links has no try/finally,
\* so its own session stays as it is; scrape_full's finally (line 347)
\* closes scrape_full's session.
Raise ==
    /\ pc' = "done"
    /\ outcome' = "error"
    /\ returned' = Nothing
    /\ sessions' = IF call = "full" THEN close(sessions, FullSession) ELSE sessions

\* One turn of the while loop of extract_all_news_links (lines 127-144), and,
\* when it breaks, lines 146-147 and the return into the caller.
ExtractPage ==
    /\ pc = "extract"
    /\ \E script \in FetchScripts :
        /\ page_count' = Bump(page_count)
        /\ used' = used \cup {[session |-> ExtractSession, kind |-> "index"]}
        /\ failed' = (failed \/ ~Served(script))
        /\ IF fetch_html(script) = "error"
           THEN /\ Raise
                /\ UNCHANGED <<current, collected, seen, urls>>
           ELSE LET parsed == parse_article_links_from_html(site[current])
                    coll == collect(parsed.article_urls, collected)
                    stop == cap_reached(max_pages, page_count') \/ parsed.next_url = NoNext
                IN  /\ collected' = coll
                    /\ seen' = {coll[i] : i \in 1..Len(coll)}
                    /\ IF ~stop
                       THEN /\ current' = parsed.next_url
                            /\ UNCHANGED <<pc, outcome, returned, sessions, urls>>
                       ELSE /\ UNCHANGED current
                            /\ sessions' = close(sessions, ExtractSession)
                            /\ IF call = "links"
                               THEN /\ pc' = "done"
                                    /\ outcome' = "ok"
                                    /\ returned' = Some(coll)
                                    /\ UNCHANGED urls
                               ELSE /\ pc' = "articles"
                                    /\ urls' = slice_limit(coll, limit)
                                    /\ UNCHANGED <<outcome, returned>>
    /\ UNCHANGED <<site, call, max_pages, limit, offset, results>>
    /\ UNCHANGED notCrawlVars

\* One turn of the for loop of scrape_full (lines 341-344)
FullArticle ==
    /\ pc = "articles"
    /\ Len(results) < Len(urls)
    /\ \E script \in FetchScripts :
        LET u == urls[Len(results) + 1]
        IN  /\ used' = used \cup {[session |-> FullSession, kind |-> "article"]}
            /\ failed' = (failed \/ ~Served(script))
            /\ IF fetch_html(script) = "error"
               THEN /\ Raise
                    /\ UNCHANGED results
               ELSE /\ results' = Append(results, ArticleOf(u))
                    /\ UNCHANGED <<pc, outcome, returned, sessions>>
    /\ UNCHANGED <<site, call, max_pages, limit, offset, current, page_count,
                   collected, seen, urls>>
    /\ UNCHANGED notCrawlVars

\* scrape_full: return results (line 345) through the finally (line 347)
FullReturn ==
    /\ pc = "articles"
    /\ Len(results) = Len(urls)
    /\ pc' = "done"
    /\ outcome' = "ok"
    /\ returned' = Some(results)
    /\ sessions' = close(sessions, FullSession)
    /\ UNCHANGED <<site, call, max_pages, limit, offset, current, page_count,
                   collected, seen, urls, results, used, failed>>
    /\ UNCHANGED notCrawlVars

\* fetch_article(url, session): with own the call makes its session and its
\* finally closes it; otherwise it borrows the caller's and leaves it open.
CallArticle(u, own) ==
    /\ pc = "idle"
    /\ call' = "article"
    /\ \E script \in FetchScripts :
        LET made == make_session(IF own THEN "call" ELSE "caller")
        IN  /\ used' = {[session |-> 1, kind |-> "article"]}
            /\ failed' = ~Served(script)
            /\ sessions' = IF own THEN close(made, 1) ELSE made
            /\ pc' = "done"
            /\ IF fetch_html(script) = "error"
               THEN outcome' = "error" /\ returned' = Nothing
               ELSE outcome' = "ok" /\ returned' = Some(ArticleOf(u))
    /\ UNCHANGED <<site, max_pages, limit, offset, current, page_count,
                   collected, seen, urls, results>>
    /\ UNCHANGED notCrawlVars

\* The keyword parameters scrape_full declares (lines 321-326), and the
\* keywords the endpoints pass (main.py lines 93-99 and 137-143)
scrape_full_params == {"start_url", "max_pages", "limit", "delay_sec"}
endpoint_kwargs == {"start_url", "max_pages", "offset", "limit", "delay_sec"}

\* GET /scrape_full and /scrape_full.csv: Python refuses a call with a
\* keyword the function does not declare (TypeError) before its body runs;
\* the endpoint's except turns every exception into a 500 "error" answer.
CallEndpoint(mp, off, lim) ==
    /\ pc = "idle"
    /\ ~(endpoint_kwargs \subseteq scrape_full_params)
    /\ call' = "endpoint"
    /\ max_pages' = mp
    /\ offset' = off
    /\ limit' = Some(lim)
    /\ pc' = "done"
    /\ outcome' = "error"
    /\ returned' = Nothing
    /\ UNCHANGED <<site, current, page_count, collected, seen, urls, results,
                   sessions, used, failed>>
    /\ UNCHANGED notCrawlVars

TransportIdle == tpc = "idle" /\ retries = RetryTotal /\ log = <<>> /\ tresult = "none"
UrlIdle == upc = "idle" /\ href = <<>> /\ url1 = Nothing /\ url2 = Nothing
ParseIdle == ppc = "idle" /\ doc = <<>> /\ article = <<>>

Init == CrawlInit /\ TransportIdle /\ UrlIdle /\ ParseIdle
Next ==
    \/ \E mp \in CapChoices : CallLinks(mp)
    \/ \E mp \in CapChoices, lim \in LimitChoices : CallFull(mp, lim)
    \/ ExtractPage
    \/ FullArticle
    \/ FullReturn
    \/ \E u \in {LinkA}, own \in BOOLEAN : CallArticle(u, own)
    \/ \E mp \in EndpointCapChoices, off \in 0..1, lim \in 1..Max(MaxLimit, 1) :
          CallEndpoint(mp, off, lim)
Spec == Init /\ [][Next]_vars

\* Every step of a call blocks until its fetch completes and then goes on:
\* a call that can take a step does take it.
FairSpec == Init /\ [][Next]_vars /\ WF_vars(Next)

(***************************************************************************)
(* What the claims about the crawl speak of, computed from the site alone. *)
(***************************************************************************)
\* The i-th index page of the traversal that starts at START_URL and
\* follows the next-page links (NoNext once the chain has ended)
RECURSIVE Visit(_)
Visit(i) ==
    IF i = 1 THEN START_URL
    ELSE LET p == Visit(i - 1) IN IF p = NoNext THEN NoNext ELSE site[p].next

\* Position of the first page of the traversal without a next-page link;
\* Unreached when the next links run in a circle
Unreached == MaxCount + 1
FirstNoNext ==
    LET ends == {i \in 1..NumPages : Visit(i) # NoNext /\ site[Visit(i)].next = NoNext}
    IN  IF ends = {} THEN Unreached ELSE CHOOSE i \in ends : \A j \in ends : i <= j

\* All links of the first n pages of the traversal, in site order
RECURSIVE LinksOfPages(_)
LinksOfPages(n) ==
    IF n = 0 THEN <<>>
    ELSE LinksOfPages(n - 1) \o parse_article_links_from_html(site[Visit(n)]).article_urls

\* s without the elements that already occur earlier in s
RECURSIVE FirstOccurrencesFrom(_, _)
FirstOccurrencesFrom(s, i) ==
    IF i > Len(s) THEN <<>>
    ELSE (IF \E j \in 1..(i - 1) : s[j] = s[i] THEN <<>> ELSE <<s[i]>>)
         \o FirstOccurrencesFrom(s, i + 1)
FirstOccurrences(s) == FirstOccurrencesFrom(s, 1)

\* extract_all_news_links has returned its list to its caller
ExtractReturned ==
    \/ call = "links" /\ outcome = "ok"
    \/ call = "full" /\ (pc = "articles" \/ outcome = "ok")

\* C1: the list extract_all_news_links returns is the accepted links of the
\* pages it fetched, in traversal order (earlier page first, page order
\* kept), each link once, at the place of its first occurrence.
C1_TraversalOrder ==
    (call = "links" /\ pc = "done" /\ outcome = "ok") =>
        returned = Some(FirstOccurrences(
                      SelectSeq(LinksOfPages(page_count), HasArticleShape)))

\* C1 witness: a returned list built from two pages, with a link that is
\* repeated inside a page and across the pages and a link new on page two
C1_Witness ==
    /\ call = "links" /\ pc = "done" /\ outcome = "ok"
    /\ page_count = 2
    /\ site[Visit(1)].links = <<LinkB, LinkX, LinkA, LinkB>>
    /\ site[Visit(2)].links = <<LinkY, LinkC, LinkA>>
    /\ returned = Some(<<LinkB, LinkA, LinkC>>)

\* C3: once a fetch of the call has failed the call is over, ended in
\* error, and has returned nothing (no partial list, no skipping).
C3_FailureAborts ==
    failed => (pc = "done" /\ outcome = "error" /\ returned = Nothing)

\* C3 witness: scrape_full fails on an article after it parsed another one
C3_Witness ==
    /\ failed /\ call = "full" /\ pc = "done"
    /\ Len(results) >= 1 /\ Len(results) < Len(urls)

\* C4 as claimed: with an integer cap k the pages fetched never exceed k and a
\* returning crawl fetched min(k, first page without a next link) pages;
\* without a cap it fetched up to the first page without a next link.
C4_Original ==
    call \in {"links", "full"} =>
        /\ max_pages # Nothing => page_count <= max_pages[1]
        /\ ExtractReturned =>
              page_count = IF max_pages = Nothing THEN FirstNoNext
                           ELSE Min(max_pages[1], FirstNoNext)

\* C4 amended: the same for every cap k >= 1; a cap k <= 0 acts as the cap 1
\* (the first page is always fetched).
C4_PagesFetched ==
    call \in {"links", "full"} =>
        /\ max_pages # Nothing => page_count <= Max(max_pages[1], 1)
        /\ ExtractReturned =>
              page_count = IF max_pages = Nothing THEN FirstNoNext
                           ELSE Min(Max(max_pages[1], 1), FirstNoNext)

\* C4 witness: the cap stops a crawl whose last page still had a next link
C4_Witness ==
    /\ call = "links" /\ pc = "done" /\ outcome = "ok"
    /\ max_pages = Some(2) /\ page_count = 2
    /\ site[current].next # NoNext

\* C5: a call that has started ends.
C5_EveryCrawlEnds == (pc # "idle") ~> (pc = "done")

\* C9: when a call is over, every session the call made is closed.
C9_SessionsReleased ==
    pc = "done" =>
        \A i \in 1..Len(sessions) : sessions[i].by = "call" => ~sessions[i].open

\* C10: a finished crawl made exactly one session, and all its requests
\* went through one session.
C10_OneSession ==
    (pc = "done" /\ call \in {"links", "full"}) =>
        /\ Cardinality({i \in 1..Len(sessions) : sessions[i].by = "call"}) = 1
        /\ Cardinality({r.session : r \in used}) <= 1

\* The candidates a crawl with the call's page cap discovers
Candidates ==
    LET n == IF max_pages = Nothing THEN FirstNoNext
             ELSE Min(Max(max_pages[1], 1), FirstNoNext)
    IN  FirstOccurrences(SelectSeq(LinksOfPages(n), HasArticleShape))

\* C2: an endpoint call whose crawl can end (no fetch fails in it) returns
\* the Articles of the candidates at positions offset .. min(offset+limit,
\* N)-1, in that order, with total = N.
C2_OffsetLimitWindow ==
    (call = "endpoint" /\ pc = "done" /\ ~failed
        /\ (max_pages = Nothing => FirstNoNext # Unreached)) =>
        LET N == Len(Candidates)
            last == Min(offset + limit[1], N)
        IN  /\ outcome = "ok"
            /\ returned = Some([items |-> [i \in 1..Max(last - offset, 0) |->
                                              ArticleOf(Candidates[offset + i])],
                                total |-> N])

(***************************************************************************)
(* SpecTransport: one session.get(url) of _fetch_html, request by request. *)
(***************************************************************************)
CrawlIdle ==
    /\ site = [p \in Pages |-> [links |-> <<>>, next |-> NoNext]]
    /\ pc = "idle" /\ call = "none" /\ max_pages = Nothing /\ limit = Nothing
    /\ offset = 0 /\ current = START_URL /\ page_count = 0
    /\ collected = <<>> /\ seen = {} /\ urls = <<>> /\ results = <<>>
    /\ sessions = <<>> /\ used = {} /\ failed = FALSE
    /\ outcome = "none" /\ returned = Nothing

\* _fetch_html is entered: session.get with the mounted Retry(total=3)
TGet ==
    /\ tpc = "idle"
    /\ tpc' = "sending"
    /\ retries' = RetryTotal
    /\ log' = <<>>
    /\ tresult' = "none"
    /\ UNCHANGED notTransportVars

\* One request goes out and resp comes back: the policy re-sends, raises,
\* or returns the response to _fetch_html, whose raise_for_status decides.
TRespond(resp) ==
    /\ tpc = "sending"
    /\ log' = Append(log, resp)
    /\ LET d == AfterResponse("GET", resp, retries)
       IN  /\ retries' = d.total
           /\ IF d.do = "resend"
              THEN UNCHANGED <<tpc, tresult>>
              ELSE /\ tpc' = "done"
                   /\ tresult' = IF d.do = "raise" THEN d.exc
                                 ELSE IF raise_for_status(resp) THEN "HTTPError"
                                 ELSE "text"
    /\ UNCHANGED notTransportVars

TransportInit == CrawlIdle /\ TransportIdle /\ UrlIdle /\ ParseIdle
TransportNext ==
    \/ TGet
    \/ \E resp \in Responses : TRespond(resp)
SpecTransport == TransportInit /\ [][TransportNext]_vars

\* The request-by-request run and the one-step fetch the crawl uses agree
TransportAgrees ==
    tpc = "done" =>
        /\ (tresult = "text") = (fetch_html(log) = "ok")
        /\ SessionGet(log).sent = Len(log)

\* C8 as claimed: at most 3 requests for one GET, a re-send only after a
\* 429/500/502/503/504 response, and an immediate failure on 404.
C8_Original ==
    /\ Len(log) <= 3
    /\ \A i \in 1..(Len(log) - 1) :
          log[i].kind = "response" /\ log[i].status \in {429, 500, 502, 503, 504}
    /\ \A i \in 1..Len(log) :
          (log[i].kind = "response" /\ log[i].status = 404) =>
              (i = Len(log) /\ tpc = "done" /\ tresult = "HTTPError")

\* C8 amended: at most 4 requests for one GET (the first and up to 3
\* retries); a re-send only after a 429/500/502/503/504 response, a 413
\* response that carries Retry-After, or a connection-level error; a 404 is
\* reported at once, without a retry; exhaustion is reported after the
\* fourth request and not before, and four requests always end the GET.
C8_RetryPolicy ==
    /\ Len(log) <= 4
    /\ \A i \in 1..(Len(log) - 1) :
          \/ log[i].kind = "error"
          \/ log[i].status \in {429, 500, 502, 503, 504}
          \/ (log[i].status = 413 /\ log[i].retry_after)
    /\ \A i \in 1..Len(log) :
          (log[i].kind = "response" /\ log[i].status = 404) =>
              (i = Len(log) /\ tpc = "done" /\ tresult = "HTTPError")
    /\ tresult \in {"RetryError", "ConnectionError"} => Len(log) = 4
    /\ Len(log) = 4 =>
          /\ tpc = "done"
          /\ (log[4].kind = "error" \/ log[4].status # 200) => tresult # "text"

\* C8 witness: 500 on every attempt, reported as a failure after the
\* fourth request
C8_Witness ==
    /\ tpc = "done" /\ tresult = "RetryError"
    /\ log = <<R(500), R(500), R(500), R(500)>>

(***************************************************************************)
(* URL Normalizer.  A URL is the sequence of its characters; RSQUO stands  *)
(* for the right single quotation mark U+2019 (three bytes in UTF-8).      *)
(***************************************************************************)
RSQUO == "rsquo"
BASE_URL ==
    <<"h", "t", "t", "p", "s", ":", "/", "/", "w", "w", "w", ".", "e", "c", "o", "n", "o">> \o
    <<"s", "t", "r", "e", "a", "m", "-", "m", "e", "d", "i", "a", ".", "c", "o", "m">>

\* Characters quote() never escapes: letters, digits, "_", ".", "-", "~"
AlwaysSafe ==
    {"a", "b", "c", "d", "e", "f", "g", "h", "i", "j", "k", "l", "m", "n", "o", "p",
     "q", "r", "s", "t", "u", "v", "w", "x", "y", "z", "A", "B", "C", "D", "E", "F",
     "G", "H", "I", "J", "K", "L", "M", "N", "O", "P", "Q", "R", "S", "T", "U", "V",
     "W", "X", "Y", "Z", "0", "1", "2", "3", "4", "5", "6", "7", "8", "9"} \cup {"_", ".", "-", "~"}
\* line 30: safe="/:@&=+$,;~*()-_."
PathSafe == {"/", ":", "@", "&", "=", "+", "$", ",", ";", "~", "*", "(", ")", "-", "_", "."}
\* line 31: safe="=&%/:+~*()-_."
QuerySafe == {"=", "&", "%", "/", ":", "+", "~", "*", "(", ")", "-", "_", "."}

\* "%XX" for every byte of the character's UTF-8 encoding
PercentEncoded(c) ==
    CASE c = " " -> <<"%", "2", "0">>
      [] c = "%" -> <<"%", "2", "5">>
      [] c = "#" -> <<"%", "2", "3">>
      [] c = "?" -> <<"%", "3", "F">>
      [] c = "/" -> <<"%", "2", "F">>
      [] c = ":" -> <<"%", "3", "A">>
      [] c = RSQUO -> <<"%", "E", "2", "%", "8", "0", "%", "9", "9">>

\* urllib.parse.quote(str, safe)
RECURSIVE quote(_, _)
quote(str, safe) ==
    IF str = <<>> THEN <<>>
    ELSE (IF Head(str) \in AlwaysSafe \cup safe THEN <<Head(str)>>
          ELSE PercentEncoded(Head(str)))
         \o quote(Tail(str), safe)

StartsWith(str, prefix) ==
    Len(str) >= Len(prefix) /\ SubSeq(str, 1, Len(prefix)) = prefix

\* Index of the first character of str that is in set, Len(str) + 1 if none
FirstIn(str, set) ==
    LET hits == {i \in 1..Len(str) : str[i] \in set}
    IN  IF hits = {} THEN Len(str) + 1 ELSE CHOOSE i \in hits : \A j \in hits : i <= j

\* urllib.parse.urlsplit(url)
urlsplit(url) ==
    LET colon == FirstIn(url, {":"})
        hasScheme == /\ colon > 1 /\ colon <= Len(url)
                     /\ \A i \in 1..(colon - 1) : url[i] \in AlwaysSafe \ {"_", "~"}
        scheme == IF hasScheme THEN SubSeq(url, 1, colon - 1) ELSE <<>>
        rest1 == IF hasScheme THEN SubSeq(url, colon + 1, Len(url)) ELSE url
        hasNetloc == StartsWith(rest1, <<"/", "/">>)
        afterSlashes == SubSeq(rest1, 3, Len(rest1))
        netEnd == FirstIn(afterSlashes, {"/", "?", "#"})
        netloc == IF hasNetloc THEN SubSeq(afterSlashes, 1, netEnd - 1) ELSE <<>>
        rest2 == IF hasNetloc THEN SubSeq(afterSlashes, netEnd, Len(afterSlashes)) ELSE rest1
        hash == FirstIn(rest2, {"#"})
        fragment == SubSeq(rest2, hash + 1, Len(rest2))
        rest3 == SubSeq(rest2, 1, hash - 1)
        qmark == FirstIn(rest3, {"?"})
    IN  [scheme |-> scheme, netloc |-> netloc,
         path |-> SubSeq(rest3, 1, qmark - 1),
         query |-> SubSeq(rest3, qmark + 1, Len(rest3)),
         fragment |-> fragment]

\* urllib.parse.urlunsplit((scheme, netloc, path, query, fragment))
urlunsplit(parts) ==
    LET p1 == IF parts.netloc # <<>>
              THEN <<"/", "/">> \o parts.netloc
                   \o (IF parts.path # <<>> /\ Head(parts.path) # "/"
                       THEN <<"/">> ELSE <<>>)
                   \o parts.path
              ELSE parts.path
        p2 == IF parts.scheme # <<>> THEN parts.scheme \o <<":">> \o p1 ELSE p1
        p3 == IF parts.query # <<>> THEN p2 \o <<"?">> \o parts.query ELSE p2
    IN  IF parts.fragment # <<>> THEN p3 \o <<"#">> \o parts.fragment ELSE p3

\* urllib.parse.urljoin(base, ref) for a reference that begins with one "/"
\* (an absolute path): the base's scheme and host, the reference's path,
\* query and fragment
urljoin(base, ref) ==
    LET b == urlsplit(base)
        r == urlsplit(ref)
    IN  urlunsplit([scheme |-> b.scheme, netloc |-> b.netloc, path |-> r.path,
                    query |-> r.query, fragment |-> r.fragment])

\* _encode_url(url)
encode_url(url) ==
    LET parts == urlsplit(url)
    IN  urlunsplit([scheme |-> parts.scheme, netloc |-> parts.netloc,
                    path |-> quote(parts.path, PathSafe),
                    query |-> quote(parts.query, QuerySafe),
                    fragment |-> parts.fragment])

\* _abs_and_encode(href, base=BASE_URL)
abs_and_encode(h) ==
    IF h = <<>> THEN Nothing
    ELSE LET absolute == IF StartsWith(h, <<"h", "t", "t", "p">>) THEN h
                         ELSE urljoin(BASE_URL, h)
         IN  Some(encode_url(absolute))

\* The links tried: empty, or "/" and up to MaxTail more characters, written
\* site-relative or with the site's origin in front
UrlChars == {"a", "%", " ", "?", "#", RSQUO}
RECURSIVE SeqsUpTo(_, _)
SeqsUpTo(S, n) ==
    IF n = 0 THEN {<<>>}
    ELSE LET shorter == SeqsUpTo(S, n - 1)
         IN  shorter \cup {Append(t, c) : t \in shorter, c \in S}
Hrefs ==
    {<<>>} \cup {pre \o <<"/">> \o t : pre \in {<<>>, BASE_URL}, t \in SeqsUpTo(UrlChars, MaxTail)}

UrlInit ==
    /\ upc = "input" /\ href \in Hrefs /\ url1 = Nothing /\ url2 = Nothing
    /\ CrawlIdle /\ TransportIdle /\ ParseIdle

\* A link of the markup is normalized
Normalize ==
    /\ upc = "input"
    /\ url1' = abs_and_encode(href)
    /\ upc' = "once"
    /\ UNCHANGED <<href, url2>>
    /\ UNCHANGED notUrlVars

\* The normalized URL is normalized again
Renormalize ==
    /\ upc = "once"
    /\ url2' = IF url1 = Nothing THEN Nothing ELSE abs_and_encode(url1[1])
    /\ upc' = "twice"
    /\ UNCHANGED <<href, url1>>
    /\ UNCHANGED notUrlVars

UrlNext ==
    \/ Normalize
    \/ Renormalize
SpecUrl == UrlInit /\ [][UrlNext]_vars

\* C6: normalizing a normalized URL gives the same URL.
C6_Idempotent == upc = "twice" => url2 = url1

\* Where normalization is idempotent: the path of the normalized URL holds
\* no "%" (nothing in the path had to be escaped); the query never matters
C6_IdempotentWithoutPathEscapes ==
    (upc = "twice" /\ url1 # Nothing /\ "%" \notin
        {urlsplit(url1[1]).path[i] : i \in 1..Len(urlsplit(url1[1]).path)})
    => url2 = url1

(***************************************************************************)
(* Article Parser: paragraphs, lede, text and word_count of                *)
(* parse_article_html.  A text is the sequence of its characters: "a" is a *)
(* letter, the others are the white space the code treats differently.     *)
(***************************************************************************)
SP == " "
TAB == "tab"
NL == "nl"
NBSP == "nbsp"
\* What str.split(), str.strip() and the pattern \s take for white space
Whitespace == {SP, TAB, NL, NBSP}
ParaChars == {"a"} \cup Whitespace

\* str.strip()
RECURSIVE lstrip(_)
lstrip(str) ==
    IF str # <<>> /\ Head(str) \in Whitespace THEN lstrip(Tail(str)) ELSE str
RECURSIVE rstrip(_)
rstrip(str) ==
    IF str # <<>> /\ str[Len(str)] \in Whitespace
    THEN rstrip(SubSeq(str, 1, Len(str) - 1)) ELSE str
strip(str) == rstrip(lstrip(str))

\* line 47: s.replace("\xa0", " ")
replace_nbsp(str) == [i \in 1..Len(str) |-> IF str[i] = NBSP THEN SP ELSE str[i]]

\* line 48: re.sub(r"[ \t]+", " ", s)
RECURSIVE collapse_blanks(_)
collapse_blanks(str) ==
    IF str = <<>> THEN <<>>
    ELSE IF Head(str) \in {SP, TAB}
    THEN <<SP>> \o collapse_blanks(
            SubSeq(str, FirstIn(str, ParaChars \ {SP, TAB}), Len(str)))
    ELSE <<Head(str)>> \o collapse_blanks(Tail(str))

\* line 49: re.sub(r"\s+\n", "\n", s).  At a white-space character the
\* greedy \s+ runs to the end of the white-space run and backs up to the
\* last newline of the run that has a white-space character before it.
RECURSIVE trim_before_newline(_)
trim_before_newline(str) ==
    IF str = <<>> THEN <<>>
    ELSE IF Head(str) \notin Whitespace
    THEN <<Head(str)>> \o trim_before_newline(Tail(str))
    ELSE LET runEnd == FirstIn(str, ParaChars \ Whitespace) - 1
             nls == {k \in 2..runEnd : str[k] = NL}
         IN  IF nls = {} THEN <<Head(str)>> \o trim_before_newline(Tail(str))
             ELSE LET k == CHOOSE k \in nls : \A j \in nls : j <= k
                  IN  <<NL>> \o trim_before_newline(SubSeq(str, k + 1, Len(str)))

\* _clean(s)
clean(str) == strip(trim_before_newline(collapse_blanks(replace_nbsp(str))))

\* str.split(" "): cut at every single space
RECURSIVE split_on_space(_)
split_on_space(str) ==
    LET cut == FirstIn(str, {SP})
    IN  IF cut > Len(str) THEN <<str>>
        ELSE <<SubSeq(str, 1, cut - 1)>> \o split_on_space(SubSeq(str, cut + 1, Len(str)))

\* str.split(): the maximal runs of characters that are not white space
RECURSIVE split(_)
split(str) ==
    LET s1 == lstrip(str)
        cut == FirstIn(s1, Whitespace)
    IN  IF s1 = <<>> THEN <<>>
        ELSE <<SubSeq(s1, 1, cut - 1)>> \o split(SubSeq(s1, cut, Len(s1)))

\* "\n\n".join(paragraphs)
RECURSIVE join(_)
join(paras) ==
    IF paras = <<>> THEN <<>>
    ELSE IF Len(paras) = 1 THEN paras[1]
    ELSE paras[1] \o <<NL, NL>> \o join(Tail(paras))

\* BODY_SELECTORS has six entries (lines 159-166)
NumBodySelectors == 6

\* lines 257-265: the paragraphs of the first body selector that matches any
\* <p>, else of soup.find_all("p")
select_paragraphs(d) ==
    LET hits == {k \in 1..NumBodySelectors : d.sel[k] # <<>>}
    IN  IF hits = {} THEN d.all_p
        ELSE d.sel[CHOOSE k \in hits : \A j \in hits : k <= j]

\* line 267: [_clean(p) for p in paragraphs if _clean(p)]
clean_paragraphs(paras) ==
    SelectSeq([i \in 1..Len(paras) |-> clean(paras[i])], LAMBDA t : t # <<>>)

\* line 293: len(body_text.split()) if body_text else 0
word_count_of(body_text) ==
    IF body_text # Nothing /\ body_text[1] # <<>> THEN Len(split(body_text[1])) ELSE 0

\* parse_article_html(html, url): the fields built from the paragraphs
parse_article_html(d, u) ==
    LET paragraphs == clean_paragraphs(select_paragraphs(d))
        body_text == IF paragraphs # <<>> THEN Some(join(paragraphs)) ELSE Nothing
    IN  [url |-> u,
         text |-> body_text,
         word_count |-> word_count_of(body_text)]

\* p.get_text(separator=" ", strip=True) strips every piece of text it joins
\* with " ": what it gives is empty or begins and ends with a letter
ParaTexts ==
    {<<>>} \cup {t \in SeqsUpTo(ParaChars, MaxParaLen) :
                    t # <<>> /\ t[1] = "a" /\ t[Len(t)] = "a"}
\* No, one or two <p> elements
ParaList(n, t1, t2) == IF n = 0 THEN <<>> ELSE IF n = 1 THEN <<t1>> ELSE <<t1, t2>>

\* The markup: body selector k is the first to match and finds the
\* paragraphs l; with k = 0 (or no paragraph) no selector matches and the
\* parser falls back on every <p> of the page
Doc(k, l) ==
    [sel |-> [j \in 1..NumBodySelectors |-> IF j = k THEN l ELSE <<>>], all_p |-> l]

ParseInit ==
    /\ ppc = "input"
    /\ \E k \in 0..NumBodySelectors, n \in 0..2 :
          \E t1 \in ParaTexts, t2 \in ParaTexts : doc = Doc(k, ParaList(n, t1, t2))
    /\ article = <<>>
    /\ CrawlIdle /\ TransportIdle /\ UrlIdle

ParseArticle ==
    /\ ppc = "input"
    /\ article' = parse_article_html(doc, LinkA)
    /\ ppc' = "parsed"
    /\ UNCHANGED doc
    /\ UNCHANGED notParseVars

ParseNext ==
    \/ ParseArticle
SpecParse == ParseInit /\ [][ParseNext]_vars

\* Number of white-space-separated tokens of str: the places where a
\* character that is not white space starts the text or follows white space
TokenCount(str) ==
    Cardinality({i \in 1..Len(str) :
        str[i] \notin Whitespace /\ (i = 1 \/ str[i - 1] \in Whitespace)})

\* The paragraphs the parser extracted from the markup
Extracted ==
    IF \E k \in 1..NumBodySelectors : doc.sel[k] # <<>>
    THEN doc.sel[CHOOSE k \in 1..NumBodySelectors :
                    doc.sel[k] # <<>> /\ \A j \in 1..(k - 1) : doc.sel[j] = <<>>]
    ELSE doc.all_p

\* C7: word_count is the number of white-space-separated tokens of text when
\* text is present and 0 when it is absent, and text is absent exactly when
\* no extracted paragraph has a character that is not white space.
C7_WordCount ==
    ppc = "parsed" =>
        /\ article.text # Nothing => article.word_count = TokenCount(article.text[1])
        /\ article.text = Nothing => article.word_count = 0
        /\ (article.text = Nothing) =
              (\A i \in 1..Len(Extracted) :
                  \A j \in 1..Len(Extracted[i]) : Extracted[i][j] \in Whitespace)

\* C7 witness: two paragraphs, one with a line break inside, give a text of
\* three tokens
C7_Witness ==
    /\ ppc = "parsed"
    /\ Len(Extracted) = 2
    /\ NL \in {Extracted[1][j] : j \in 1..Len(Extracted[1])}
    /\ article.text # Nothing
    /\ article.word_count = 3

====
